---- MODULE Spec2Model ----
(***************************************************************************)
(* The two variants of the traced HTTP demo service:                       *)
(*   "std"  src/app/main.go        (net/http ServeMux)                     *)
(*   "chi"  src/unnamed/part_000   (chi router)                            *)
(* Spec     models the process life cycle of main(): tracer set-up, the    *)
(*          listener goroutine, in-flight requests, the interrupt and the  *)
(*          two shutdown phases, with time in seconds.                     *)
(* SpecReq  models one request travelling through the otelhttp middleware, *)
(*          the router and the handler of a serving process.               *)
(***************************************************************************)
EXTENDS Integers, Sequences, FiniteSets, TLC

VARIABLES
    variant,          \* which main() runs: "std" or "chi"
    endpoint,         \* os.Getenv("NEW_RELIC_OTLP_ENDPOINT")
    apiKey,           \* os.Getenv("NEW_RELIC_API_KEY")
    pc,               \* position of the main goroutine
    tp,               \* the TracerProvider: "none", "active", "shutdown"
    exporterCreated,  \* otlptracegrpc.New has been called
    propagatorSet,    \* otel.SetTextMapPropagator has been called
    listener,         \* the listener goroutine: "off", "starting", "bound", "closed"
    exitCause,        \* why the process ended: "none", "config", "exporter", "panic", "listen", "return"
    reqs,             \* the requests accepted so far, in order of arrival
    srvElapsed,       \* seconds spent in srv.Shutdown
    tpElapsed,        \* seconds spent in tp.Shutdown
    phases,           \* the shutdown calls of main, in the order they happened
    \* one request in the middleware, the router and the handler (SpecReq)
    rq,               \* the request: method, path, query, traceparent header
    stage,            \* how far the request has come
    remote,           \* the trace context the middleware extracted: "none" or "remote"
    serverSpan,       \* the span started by the otelhttp middleware
    childSpan,        \* the span started by the route handler
    handler,          \* the registered handler the router invoked, or "none"
    resp,             \* the response written so far
    queueLen,         \* ended spans waiting in the batch span processor
    dropped,          \* spans the processor or the exporter dropped
    collectorUp       \* whether the collector answers exports

lifeVars == <<variant, endpoint, apiKey, pc, tp, exporterCreated, propagatorSet,
              listener, exitCause, reqs, srvElapsed, tpElapsed, phases>>

pipeVars == <<rq, stage, remote, serverSpan, childSpan, handler, resp, queueLen,
              dropped, collectorUp>>

vars == <<lifeVars, pipeVars>>

\* ------------------------------------------------------------------ bounds
MaxReq == 2        \* requests accepted in one run
MaxDur == 11       \* longest time (s) a handler goroutine takes to write its response
MaxWait == 11      \* seconds of flush waiting that are counted

\* ------------------------------------------------------- program constants
ShutdownTimeout == 10     \* context.WithTimeout(..., 10*time.Second) for srv.Shutdown
TpShutdownTimeout == 5    \* context.WithTimeout(..., 5*time.Second) for tp.Shutdown (std)
NoDeadline == -1          \* a context without deadline (context.Background())

Variants == {"std", "chi"}
EnvValues == {"", "set"}

\* newExporter without the check of the API key.
newExporter_NoKeyCheck(ep, key, expOk) ==
    IF ep = "" THEN [created |-> FALSE, err |-> "config"]
    ELSE IF ~expOk THEN [created |-> TRUE, err |-> "exporter"]
    ELSE [created |-> TRUE, err |-> "none"]

\* ------------------------------------------------------ tracer set-up (pure)
\* src/unnamed/part_000 newExporter: both values are checked before
\* otlptracegrpc.New is called. expOk is whether otlptracegrpc.New succeeds.
newExporter(ep, key, expOk) ==
    IF ep = "" THEN [created |-> FALSE, err |-> "config"]
    ELSE IF key = "" THEN [created |-> FALSE, err |-> "config"]
    ELSE IF ~expOk THEN [created |-> TRUE, err |-> "exporter"]
    ELSE [created |-> TRUE, err |-> "none"]

\* src/app/main.go initTracer: the same checks, then the resource merge (resOk),
\* the provider and the global propagator.
initTracer(ep, key, expOk, resOk) ==
    IF ep = "" THEN [created |-> FALSE, err |-> "config", tp |-> "none", prop |-> FALSE]
    ELSE IF key = "" THEN [created |-> FALSE, err |-> "config", tp |-> "none", prop |-> FALSE]
    ELSE IF ~expOk THEN [created |-> TRUE, err |-> "exporter", tp |-> "none", prop |-> FALSE]
    ELSE IF ~resOk THEN [created |-> TRUE, err |-> "resource", tp |-> "none", prop |-> FALSE]
    ELSE [created |-> TRUE, err |-> "none", tp |-> "active", prop |-> TRUE]

\* The deadline of the context handed to tp.Shutdown by the deferred call.
TpDeadline(v) == IF v = "std" THEN TpShutdownTimeout ELSE NoDeadline

\* ----------------------------------------------------------------- requests
InFlight(r) == r.stage # "done"
AnyInFlight == \E i \in 1..Len(reqs) : InFlight(reqs[i])
Running == pc # "exited"

\* ------------------------------------------------------------ main goroutine
\* std main, lines 97-115: a tracer failure is logged and serving goes on.
StdInitTracer ==
    /\ variant = "std" /\ pc = "init"
    /\ \E expOk \in BOOLEAN, resOk \in BOOLEAN :
         LET t == initTracer(endpoint, apiKey, expOk, resOk) IN
           /\ exporterCreated' = t.created
           /\ tp' = t.tp
           /\ propagatorSet' = t.prop
    /\ pc' = "main"
    /\ UNCHANGED <<variant, endpoint, apiKey, listener, exitCause, reqs, srvElapsed, tpElapsed>>
    /\ UNCHANGED phases
    /\ UNCHANGED pipeVars

\* chi main, lines 143-156: log.Fatalf on an exporter error, panic on a
\* resource error, otherwise the provider is created.
ChiNewExporter ==
    /\ variant = "chi" /\ pc = "init"
    /\ \E expOk \in BOOLEAN, resOk \in BOOLEAN :
         LET e == newExporter(endpoint, apiKey, expOk) IN
           /\ exporterCreated' = e.created
           /\ IF e.err # "none"
                THEN /\ pc' = "exited" /\ exitCause' = e.err /\ tp' = "none"
                ELSE IF ~resOk
                THEN /\ pc' = "exited" /\ exitCause' = "panic" /\ tp' = "none"
                ELSE /\ pc' = "main" /\ exitCause' = "none" /\ tp' = "active"
    /\ UNCHANGED <<variant, endpoint, apiKey, propagatorSet, listener, reqs, srvElapsed, tpElapsed>>
    /\ UNCHANGED phases
    /\ UNCHANGED pipeVars

\* go func() { srv.ListenAndServe() }(); signal.Notify; <-stop
StartListener ==
    /\ pc = "main"
    /\ pc' = "waiting"
    /\ listener' = "starting"
    /\ UNCHANGED <<variant, endpoint, apiKey, tp, exporterCreated, propagatorSet,
                   exitCause, reqs, srvElapsed, tpElapsed>>
    /\ UNCHANGED phases
    /\ UNCHANGED pipeVars

\* The listener goroutine binds :8080.
ListenOk ==
    /\ Running /\ listener = "starting" /\ pc = "waiting"
    /\ listener' = "bound"
    /\ UNCHANGED <<variant, endpoint, apiKey, pc, tp, exporterCreated, propagatorSet,
                   exitCause, reqs, srvElapsed, tpElapsed>>
    /\ UNCHANGED phases
    /\ UNCHANGED pipeVars

\* ListenAndServe returns an error other than ErrServerClosed: log.Fatalf
\* ends the process at once (os.Exit(1)); deferred calls do not run.
ListenFatal ==
    /\ Running /\ listener = "starting"
    /\ listener' = "closed"
    /\ pc' = "exited"
    /\ exitCause' = "listen"
    /\ UNCHANGED <<variant, endpoint, apiKey, tp, exporterCreated, propagatorSet,
                   reqs, srvElapsed, tpElapsed>>
    /\ UNCHANGED phases
    /\ UNCHANGED pipeVars

\* ListenAndServe returns ErrServerClosed once srv.Shutdown has been called.
ListenClosed ==
    /\ Running /\ listener = "starting" /\ pc # "waiting"
    /\ listener' = "closed"
    /\ UNCHANGED <<variant, endpoint, apiKey, pc, tp, exporterCreated, propagatorSet,
                   exitCause, reqs, srvElapsed, tpElapsed>>
    /\ UNCHANGED phases
    /\ UNCHANGED pipeVars

\* <-stop receives the interrupt; srv.Shutdown(shutdownCtx) is entered and
\* closes the listener.
Interrupt ==
    /\ pc = "waiting"
    /\ pc' = "srvShutdown"
    /\ srvElapsed' = 0
    /\ listener' = IF listener = "bound" THEN "closed" ELSE listener
    /\ reqs' = [i \in 1..Len(reqs) |->
                  [reqs[i] EXCEPT !.need = IF InFlight(reqs[i]) THEN reqs[i].rem ELSE -1]]
    /\ UNCHANGED <<variant, endpoint, apiKey, tp, exporterCreated, propagatorSet,
                   exitCause, tpElapsed>>
    /\ phases' = Append(phases, "srv.Shutdown called")
    /\ UNCHANGED pipeVars

\* srv.Close in place of srv.Shutdown: it does not wait for requests.
SrvShutdownCanReturn_NoWait == TRUE

\* srv.Shutdown returns when no connection is active or its context is done.
SrvShutdownCanReturn == ~AnyInFlight \/ srvElapsed >= ShutdownTimeout

\* main returns; the deferred calls run: tp.Shutdown if a provider exists.
SrvShutdownReturn ==
    /\ pc = "srvShutdown"
    /\ SrvShutdownCanReturn
    /\ IF tp = "active"
         THEN /\ pc' = "tpShutdown" /\ tpElapsed' = 0 /\ exitCause' = exitCause
         ELSE /\ pc' = "exited" /\ exitCause' = "return" /\ tpElapsed' = tpElapsed
    /\ UNCHANGED <<variant, endpoint, apiKey, tp, exporterCreated, propagatorSet,
                   listener, reqs, srvElapsed>>
    /\ phases' = IF tp = "active"
                   THEN phases \o <<"srv.Shutdown returned", "tp.Shutdown called">>
                   ELSE Append(phases, "srv.Shutdown returned")
    /\ UNCHANGED pipeVars

\* The collector acknowledges the last batch: tp.Shutdown returns nil.
TpFlushDone ==
    /\ pc = "tpShutdown"
    /\ tp' = "shutdown"
    /\ pc' = "tpReturned"
    /\ UNCHANGED <<variant, endpoint, apiKey, exporterCreated, propagatorSet,
                   listener, exitCause, reqs, srvElapsed, tpElapsed>>
    /\ phases' = Append(phases, "tp.Shutdown returned")
    /\ UNCHANGED pipeVars

TpDeadlineReached == TpDeadline(variant) # NoDeadline /\ tpElapsed >= TpDeadline(variant)

\* The context of tp.Shutdown is done: tp.Shutdown returns its error.
TpShutdownTimedOut ==
    /\ pc = "tpShutdown"
    /\ TpDeadlineReached
    /\ tp' = "shutdown"
    /\ pc' = "tpReturned"
    /\ UNCHANGED <<variant, endpoint, apiKey, exporterCreated, propagatorSet,
                   listener, exitCause, reqs, srvElapsed, tpElapsed>>
    /\ phases' = Append(phases, "tp.Shutdown returned")
    /\ UNCHANGED pipeVars

\* The last deferred call has run: the process ends, whatever is in flight.
MainExit ==
    /\ pc = "tpReturned"
    /\ pc' = "exited"
    /\ exitCause' = "return"
    /\ UNCHANGED <<variant, endpoint, apiKey, tp, exporterCreated, propagatorSet,
                   listener, reqs, srvElapsed, tpElapsed>>
    /\ UNCHANGED phases
    /\ UNCHANGED pipeVars

\* ------------------------------------------------------- request goroutines
\* A connection is accepted and the middleware starts the server span; the
\* handler goroutine will need d seconds before its response is written.
\* need records the seconds the request still needed when the interrupt
\* arrived (-1: not in flight then).
ReqAccept ==
    /\ Running /\ listener = "bound" /\ Len(reqs) < MaxReq
    /\ \E d \in 0..MaxDur :
         reqs' = Append(reqs, [stage |-> "mw", rem |-> d, status |-> 0,
                               server |-> "started", child |-> "none",
                               need |-> -1])
    /\ UNCHANGED <<variant, endpoint, apiKey, pc, tp, exporterCreated, propagatorSet,
                   listener, exitCause, srvElapsed, tpElapsed>>
    /\ UNCHANGED phases
    /\ UNCHANGED pipeVars

ReqUnchanged == UNCHANGED <<variant, endpoint, apiKey, pc, tp, exporterCreated,
                            propagatorSet, listener, exitCause, srvElapsed, tpElapsed,
                            phases, pipeVars>>

\* _, span := tracer.Start(ctx, ...)
ReqHandlerStart(i) ==
    /\ Running /\ reqs[i].stage = "mw"
    /\ reqs' = [reqs EXCEPT ![i].stage = "work", ![i].child = "started"]
    /\ ReqUnchanged

\* span.SetAttributes(...); writeJSON(w, http.StatusOK, ...)
ReqHandlerWrite(i) ==
    /\ Running /\ reqs[i].stage = "work" /\ reqs[i].rem = 0
    /\ reqs' = [reqs EXCEPT ![i].stage = "written", ![i].status = 200]
    /\ ReqUnchanged

\* defer span.End(); the handler returns to the middleware
ReqHandlerReturn(i) ==
    /\ Running /\ reqs[i].stage = "written"
    /\ reqs' = [reqs EXCEPT ![i].stage = "returned", ![i].child = "ended"]
    /\ ReqUnchanged

\* otelhttp ends the server span after the wrapped handler has returned.
ReqMiddlewareEnd(i) ==
    /\ Running /\ reqs[i].stage = "returned"
    /\ reqs' = [reqs EXCEPT ![i].stage = "done", ![i].server = "ended"]
    /\ ReqUnchanged

\* --------------------------------------------------------------------- time
Urgent(r) == r.stage \in {"mw", "written", "returned"} \/ (r.stage = "work" /\ r.rem = 0)

\* One second passes. Steps that take no time come first.
Tick ==
    /\ pc \in {"waiting", "srvShutdown", "tpShutdown"}
    /\ \A i \in 1..Len(reqs) : ~Urgent(reqs[i])
    /\ ~(pc = "srvShutdown" /\ SrvShutdownCanReturn)
    /\ ~(pc = "tpShutdown" /\ TpDeadlineReached)
    /\ \/ AnyInFlight
       \/ pc = "tpShutdown"
    /\ reqs' = [i \in 1..Len(reqs) |->
                  IF reqs[i].stage = "work"
                    THEN [reqs[i] EXCEPT !.rem = reqs[i].rem - 1]
                    ELSE reqs[i]]
    /\ srvElapsed' = IF pc = "srvShutdown" THEN srvElapsed + 1 ELSE srvElapsed
    /\ tpElapsed' = IF pc = "tpShutdown" /\ tpElapsed < MaxWait THEN tpElapsed + 1 ELSE tpElapsed
    /\ UNCHANGED <<variant, endpoint, apiKey, pc, tp, exporterCreated, propagatorSet,
                   listener, exitCause>>
    /\ UNCHANGED phases
    /\ UNCHANGED pipeVars

\* =========================================================================
\* One request through middleware, router and handler.
\* Strings are sequences of one-character strings; a literal piece of text
\* that never varies is kept as one element.
\* =========================================================================
MaxLen == 3        \* longest value of the name query parameter
MaxQueue == 2      \* capacity of the batch span processor's queue

Methods == {"GET", "POST"}
\* "/healthz", "/", "/hello", "/users/7", "/foo", "/users/7/x" as path segments
Paths == {<<"healthz">>, <<>>, <<"hello">>, <<"users", "7">>, <<"foo">>,
          <<"users", "7", "x">>}
Headers == {"absent", "valid", "malformed"}
Chars == {"x", "+", "%", "2", "<", "\""}

RECURSIVE StringsOfLen(_)
StringsOfLen(n) ==
    IF n = 0 THEN {<<>>}
    ELSE {Append(s, c) : s \in StringsOfLen(n - 1), c \in Chars}
Strings == UNION {StringsOfLen(n) : n \in 0..MaxLen}

\* What a client does to put the value s into a URL (url.QueryEscape).
EscapeChar(c) ==
    CASE c = "+" -> <<"%", "2", "B">>
      [] c = "%" -> <<"%", "2", "5">>
      [] c = "<" -> <<"%", "3", "C">>
      [] c = "\"" -> <<"%", "2", "2">>
      [] c = " " -> <<"+">>
      [] OTHER -> <<c>>
RECURSIVE QueryEscape(_)
QueryEscape(s) == IF s = <<>> THEN <<>> ELSE EscapeChar(Head(s)) \o QueryEscape(Tail(s))

\* The text after "name=" in the URL of request r, and its raw query.
Sent(r) == IF r.mode = "escaped" THEN QueryEscape(r.s) ELSE r.s
RawQuery(r) == IF r.hasName THEN <<"n", "a", "m", "e", "=">> \o Sent(r) ELSE <<>>

\* ------------------------------------------------ r.URL.Query().Get("name")
HexDigits == {"0", "1", "2", "3", "4", "5", "6", "7", "8", "9",
              "A", "B", "C", "D", "E", "F", "a", "b", "c", "d", "e", "f"}
\* The byte a %XY escape stands for.
ByteOf(a, b) ==
    CASE a = "2" /\ b = "2" -> "\""
      [] a = "2" /\ b = "5" -> "%"
      [] a = "2" /\ b \in {"B", "b"} -> "+"
      [] a = "3" /\ b \in {"C", "c"} -> "<"
      [] a = "2" /\ b = "0" -> " "
      [] OTHER -> "?"

\* url.QueryUnescape: "+" is a space, %XY a byte, anything else after "%" an error.
RECURSIVE QueryUnescape(_)
QueryUnescape(s) ==
    IF s = <<>> THEN [ok |-> TRUE, val |-> <<>>]
    ELSE IF Head(s) = "%"
      THEN IF Len(s) >= 3 /\ s[2] \in HexDigits /\ s[3] \in HexDigits
             THEN LET rest == QueryUnescape(SubSeq(s, 4, Len(s))) IN
                    [ok |-> rest.ok, val |-> <<ByteOf(s[2], s[3])>> \o rest.val]
             ELSE [ok |-> FALSE, val |-> <<>>]
      ELSE LET rest == QueryUnescape(Tail(s)) IN
             [ok |-> rest.ok,
              val |-> <<IF Head(s) = "+" THEN " " ELSE Head(s)>> \o rest.val]

\* The index of the first c in s, or 0.
RECURSIVE IndexFrom(_, _, _)
IndexFrom(s, c, i) ==
    IF i > Len(s) THEN 0 ELSE IF s[i] = c THEN i ELSE IndexFrom(s, c, i + 1)

\* url.ParseQuery + Values.Get: the pairs are split at "&", each at its first
\* "="; a pair that does not unescape is skipped; the first value of the key wins.
RECURSIVE QueryGet(_, _)
QueryGet(q, key) ==
    IF q = <<>> THEN <<>>
    ELSE LET amp  == IndexFrom(q, "&", 1)
             pair == IF amp = 0 THEN q ELSE SubSeq(q, 1, amp - 1)
             rest == IF amp = 0 THEN <<>> ELSE SubSeq(q, amp + 1, Len(q))
             eq   == IndexFrom(pair, "=", 1)
             k    == QueryUnescape(IF eq = 0 THEN pair ELSE SubSeq(pair, 1, eq - 1))
             v    == QueryUnescape(IF eq = 0 THEN <<>> ELSE SubSeq(pair, eq + 1, Len(pair)))
         IN IF pair # <<>> /\ k.ok /\ v.ok /\ k.val = key
              THEN v.val
              ELSE QueryGet(rest, key)

\* ------------------------------------------------------ json.Encoder.Encode
JSONEscapeChar(c) ==
    CASE c = "\"" -> <<"\\", "\"">>
      [] c = "\\" -> <<"\\", "\\">>
      [] c = "<" -> <<"\\", "u", "0", "0", "3", "c">>
      [] c = ">" -> <<"\\", "u", "0", "0", "3", "e">>
      [] c = "&" -> <<"\\", "u", "0", "0", "2", "6">>
      [] OTHER -> <<c>>
RECURSIVE JSONEscape(_)
JSONEscape(s) == IF s = <<>> THEN <<>> ELSE JSONEscapeChar(Head(s)) \o JSONEscape(Tail(s))

\* writeJSON: the header, the status, the encoded value and a newline.
writeJSON(status, open, value, close) ==
    [status |-> status, ctype |-> "application/json; charset=utf-8",
     body |-> <<open>> \o JSONEscape(value) \o <<close, "\n">>]

\* ----------------------------------------------------------------- handlers
NameKey == <<"n", "a", "m", "e">>

\* The handler without its default for an empty name.
getHelloName_NoDefault(r) == QueryGet(RawQuery(r), NameKey)

\* name := r.URL.Query().Get("name"); if name == "" { name = "World" }
getHelloName(r) ==
    LET name == QueryGet(RawQuery(r), NameKey) IN
      IF name = <<>> THEN <<"World">> ELSE name

getHealtz(r) == writeJSON(200, "{\"status\":\"", <<"ok">>, "\"}")

getRoot(v, r) ==
    [status |-> 200, ctype |-> "text/plain; charset=utf-8",
     body |-> <<IF v = "std"
                  THEN "Welcome to the standard library HTTP server behind Nginx!"
                  ELSE "Welcome to the chi HTTP server behind Nginx!", "\n">>]

getHello(r) ==
    writeJSON(200, "{\"message\":\"", <<"Hello, ">> \o getHelloName(r) \o <<"!">>, "\"}")

getUserByID(r, id) ==
    writeJSON(200, "{\"id\":\"", <<id>>,
              "\",\"profile\":{\"created_at\":\"<now>\",\"nickname\":\"guest\"}}")

\* ------------------------------------------------------------------- router
NoRoute(status) == [handler |-> "none", status |-> status, id |-> ""]

\* http.ServeMux with "GET /healthz", "GET /", "GET /hello", "GET /users/{id}":
\* a pattern ending in "/" matches every path below it, a GET pattern also
\* serves HEAD, and a path served under another method only is answered 405.
muxStd(method, path) ==
    LET h == IF path = <<"healthz">> THEN "getHealtz"
             ELSE IF path = <<"hello">> THEN "getHello"
             ELSE IF Len(path) = 2 /\ path[1] = "users" THEN "getUserByID"
             ELSE "getRoot"
    IN IF method \in {"GET", "HEAD"}
         THEN [handler |-> h, status |-> 0,
               id |-> IF h = "getUserByID" THEN path[2] ELSE ""]
         ELSE NoRoute(405)

\* chi with r.Get on the same four patterns: the path is matched whole.
muxChi(method, path) ==
    LET h == IF path = <<"healthz">> THEN "getHealtz"
             ELSE IF path = <<>> THEN "getRoot"
             ELSE IF path = <<"hello">> THEN "getHello"
             ELSE IF Len(path) = 2 /\ path[1] = "users" THEN "getUserByID"
             ELSE "none"
    IN IF h = "none" THEN NoRoute(404)
       ELSE IF method = "GET"
         THEN [handler |-> h, status |-> 0,
               id |-> IF h = "getUserByID" THEN path[2] ELSE ""]
         ELSE NoRoute(405)

Dispatch(v, method, path) == IF v = "std" THEN muxStd(method, path) ELSE muxChi(method, path)

HandlerResponse(v, h, r, id) ==
    CASE h = "getHealtz" -> getHealtz(r)
      [] h = "getRoot" -> getRoot(v, r)
      [] h = "getHello" -> getHello(r)
      [] h = "getUserByID" -> getUserByID(r, id)

HandlerSpanName(h) ==
    CASE h = "getHealtz" -> "health_check"
      [] h = "getRoot" -> "root_handler"
      [] h = "getHello" -> "hello_handler"
      [] h = "getUserByID" -> "get_user_handler"

\* ------------------------------------------------------------------ tracing
\* The tracer the handlers use: std takes it from the global provider
\* (otel.Tracer), chi from the provider it created (tp.Tracer).
Tracer(v, tpState) ==
    IF v = "std" THEN "global"
    ELSE IF tpState = "none" THEN "nil" ELSE "provider"

\* Spans are recorded only once a provider has been created.
Recording(tpState) == tpState = "active"

\* The propagator the middleware extracts with: std reads the global one at
\* each request, chi passes otel.GetTextMapPropagator(); both are the no-op
\* propagator unless otel.SetTextMapPropagator has been called.
Extract(propSet, header) == IF propSet /\ header = "valid" THEN "remote" ELSE "none"

\* sdktrace.WithSyncer in place of WithBatcher: End exports before it returns.
EndWaitsForExport_Syncer == TRUE

\* sdktrace.WithBatcher: End hands the span to a queue and returns; it does
\* not wait for the export.
EndWaitsForExport == FALSE

NoSpan == [state |-> "none", ends |-> 0, recording |-> FALSE, traceId |-> "none",
           parent |-> "none", name |-> "", helloName |-> <<>>]

EndSpan(span) == [span EXCEPT !.state = "ended", !.ends = span.ends + 1]

CanEnd(span) == ~(span.recording /\ EndWaitsForExport) \/ collectorUp

\* BatchSpanProcessor.OnEnd: a full queue drops the span.
Enqueue(span) ==
    IF ~span.recording THEN UNCHANGED <<queueLen, dropped>>
    ELSE IF queueLen < MaxQueue
      THEN /\ queueLen' = queueLen + 1 /\ dropped' = dropped
      ELSE /\ queueLen' = queueLen /\ dropped' = TRUE

PipeUnchanged == UNCHANGED lifeVars

\* otelhttp.NewHandler: extract the context, start the server span.
otelhttpStart ==
    /\ stage = "received"
    /\ LET ctx == Extract(propagatorSet, rq.traceparent) IN
         /\ remote' = ctx
         /\ serverSpan' = [state |-> "started", ends |-> 0,
                           recording |-> Recording(tp),
                           traceId |-> IF ~Recording(tp) THEN "none"
                                       ELSE IF ctx = "remote" THEN "remote" ELSE "new",
                           parent |-> ctx,
                           name |-> IF variant = "std" THEN "http-server" ELSE "method path",
                           helloName |-> <<>>]
    /\ stage' = "routing"
    /\ UNCHANGED <<rq, childSpan, handler, resp, queueLen, dropped, collectorUp>>
    /\ PipeUnchanged

\* The router finds the handler, or answers itself.
routerDispatch ==
    /\ stage = "routing"
    /\ LET d == Dispatch(variant, rq.method, rq.path) IN
         /\ handler' = d.handler
         /\ IF d.handler = "none"
              THEN /\ resp' = [status |-> d.status, ctype |-> "text/plain; charset=utf-8",
                               body |-> <<>>]
                   /\ stage' = "returned"
              ELSE /\ resp' = resp
                   /\ stage' = "handler"
    /\ UNCHANGED <<rq, remote, serverSpan, childSpan, queueLen, dropped, collectorUp>>
    /\ PipeUnchanged

\* _, span := tracer.Start(ctx, name); a nil tracer panics and the server
\* drops the connection.
handlerStart ==
    /\ stage = "handler"
    /\ IF Tracer(variant, tp) = "nil"
         THEN /\ stage' = "returned"
              /\ resp' = [status |-> 500, ctype |-> "", body |-> <<>>]
              /\ childSpan' = childSpan
         ELSE /\ stage' = "body"
              /\ resp' = resp
              /\ childSpan' = [state |-> "started", ends |-> 0,
                               recording |-> Recording(tp),
                               traceId |-> serverSpan.traceId,
                               parent |-> "server",
                               name |-> HandlerSpanName(handler),
                               helloName |-> <<>>]
    /\ UNCHANGED <<rq, remote, serverSpan, handler, queueLen, dropped, collectorUp>>
    /\ PipeUnchanged

\* span.SetAttributes(...) and the write of the response.
handlerBody ==
    /\ stage = "body"
    /\ childSpan' = IF handler = "getHello"
                      THEN [childSpan EXCEPT !.helloName = getHelloName(rq)]
                      ELSE childSpan
    /\ resp' = HandlerResponse(variant, handler, rq, Dispatch(variant, rq.method, rq.path).id)
    /\ stage' = "written"
    /\ UNCHANGED <<rq, remote, serverSpan, handler, queueLen, dropped, collectorUp>>
    /\ PipeUnchanged

\* The handler without its deferred span.End().
handlerDefer_NoEnd ==
    /\ stage = "written"
    /\ stage' = "returned"
    /\ UNCHANGED <<rq, remote, serverSpan, childSpan, handler, resp, queueLen,
                   dropped, collectorUp>>
    /\ UNCHANGED lifeVars

\* defer span.End(): runs as the handler returns.
handlerDefer ==
    /\ stage = "written"
    /\ CanEnd(childSpan)
    /\ childSpan' = EndSpan(childSpan)
    /\ Enqueue(childSpan)
    /\ stage' = "returned"
    /\ UNCHANGED <<rq, remote, serverSpan, handler, resp, collectorUp>>
    /\ PipeUnchanged

\* The middleware ends the server span once the wrapped handler is back.
otelhttpEnd ==
    /\ stage = "returned"
    /\ CanEnd(serverSpan)
    /\ serverSpan' = EndSpan(serverSpan)
    /\ Enqueue(serverSpan)
    /\ stage' = "done"
    /\ UNCHANGED <<rq, remote, childSpan, handler, resp, collectorUp>>
    /\ PipeUnchanged

\* The batch processor's goroutine exports what is queued; when the collector
\* does not answer the batch is dropped and the error logged.
exportBatch ==
    /\ queueLen > 0
    /\ queueLen' = 0
    /\ dropped' = (dropped \/ ~collectorUp)
    /\ UNCHANGED <<rq, stage, remote, serverSpan, childSpan, handler, resp, collectorUp>>
    /\ PipeUnchanged

\* The requests a run is started with.
RoutingRequests ==
    [method : Methods, path : Paths, traceparent : Headers,
     hasName : {FALSE}, mode : {"raw"}, s : {<<>>}]
HelloRequests ==
    [method : {"GET"}, path : {<<"hello">>}, traceparent : {"absent"},
     hasName : {TRUE}, mode : {"raw", "escaped"}, s : Strings]
Requests == RoutingRequests \cup HelloRequests

NoResp == [status |-> 0, ctype |-> "", body |-> <<>>]

PipeIdle ==
    /\ rq = [method |-> "GET", path |-> <<>>, traceparent |-> "absent",
             hasName |-> FALSE, mode |-> "raw", s |-> <<>>]
    /\ stage = "idle"
    /\ remote = "none"
    /\ serverSpan = NoSpan
    /\ childSpan = NoSpan
    /\ handler = "none"
    /\ resp = NoResp
    /\ queueLen = 0
    /\ dropped = FALSE
    /\ collectorUp = TRUE

\* A serving process: main has run up to <-stop and the listener is bound.
InitReq ==
    /\ variant \in Variants
    /\ endpoint \in EnvValues
    /\ apiKey = "set"
    /\ exporterCreated = newExporter(endpoint, apiKey, TRUE).created
    /\ IF variant = "std"
         THEN /\ tp = initTracer(endpoint, apiKey, TRUE, TRUE).tp
              /\ propagatorSet = initTracer(endpoint, apiKey, TRUE, TRUE).prop
         ELSE /\ newExporter(endpoint, apiKey, TRUE).err = "none"
              /\ tp = "active"
              /\ propagatorSet = FALSE
    /\ pc = "waiting"
    /\ listener = "bound"
    /\ exitCause = "none"
    /\ reqs = <<>>
    /\ srvElapsed = 0
    /\ tpElapsed = 0
    /\ phases = <<>>
    /\ rq \in Requests
    /\ stage = "received"
    /\ remote = "none"
    /\ serverSpan = NoSpan
    /\ childSpan = NoSpan
    /\ handler = "none"
    /\ resp = NoResp
    /\ queueLen \in (IF tp = "active" THEN 0..MaxQueue ELSE {0})
    /\ dropped = FALSE
    /\ collectorUp \in BOOLEAN

NextReq ==
    \/ otelhttpStart
    \/ routerDispatch
    \/ handlerStart
    \/ handlerBody
    \/ handlerDefer
    \/ otelhttpEnd
    \/ exportBatch

SpecReq == InitReq /\ [][NextReq]_vars

\* ------------------------------------------------------------ specification
Init ==
    /\ variant \in Variants
    /\ endpoint \in EnvValues
    /\ apiKey \in EnvValues
    /\ pc = "init"
    /\ tp = "none"
    /\ exporterCreated = FALSE
    /\ propagatorSet = FALSE
    /\ listener = "off"
    /\ exitCause = "none"
    /\ reqs = <<>>
    /\ srvElapsed = 0
    /\ tpElapsed = 0
    /\ phases = <<>>
    /\ PipeIdle

Next ==
    \/ StdInitTracer
    \/ ChiNewExporter
    \/ StartListener
    \/ ListenOk
    \/ ListenFatal
    \/ ListenClosed
    \/ Interrupt
    \/ SrvShutdownReturn
    \/ TpFlushDone
    \/ TpShutdownTimedOut
    \/ MainExit
    \/ ReqAccept
    \/ \E i \in 1..Len(reqs) : ReqHandlerStart(i)
    \/ \E i \in 1..Len(reqs) : ReqHandlerWrite(i)
    \/ \E i \in 1..Len(reqs) : ReqHandlerReturn(i)
    \/ \E i \in 1..Len(reqs) : ReqMiddlewareEnd(i)
    \/ Tick

Spec == Init /\ [][Next]_vars

\* =========================================================================
\* Properties
\* =========================================================================
Ended(span) == span.state = "ended"
Open(span) == span.state = "started"
Called(p) == \E k \in 1..Len(phases) : phases[k] = p

\* C1: every span a request starts is ended exactly once, the handler's span
\* is ended no later than the middleware's span, and it is ended before the
\* handler returns to the middleware, whatever the response.
C1_SpansEndedOnceChildFirst ==
    /\ serverSpan.ends <= 1
    /\ childSpan.ends <= 1
    /\ Ended(serverSpan) => ~Open(childSpan)
    /\ stage \in {"returned", "done"} => ~Open(childSpan)
    /\ stage = "done" => /\ serverSpan.ends = 1
                         /\ childSpan.state # "none" => childSpan.ends = 1

C1_Witness ==
    /\ stage = "done" /\ handler = "getUserByID" /\ serverSpan.recording
    /\ serverSpan.ends = 1 /\ childSpan.ends = 1

\* C2: once tp.Shutdown has returned, no span started by a request is still
\* open, also when a request outlives the 10 s wait of srv.Shutdown.
C2_NoSpanOpenAfterFlush ==
    Called("tp.Shutdown returned") =>
        \A i \in 1..Len(reqs) : reqs[i].server # "started" /\ reqs[i].child # "started"

\* C3: both shutdown phases return within a bounded time in either variant:
\* neither srv.Shutdown nor tp.Shutdown is still waiting after the longest
\* timeout the program states, even when the collector never answers.
C3_BothPhasesBounded ==
    /\ pc = "srvShutdown" => srvElapsed <= ShutdownTimeout
    /\ pc = "tpShutdown" => tpElapsed <= ShutdownTimeout

\* C4: the listener is shut down first and the provider flushed only after
\* srv.Shutdown has returned; a request in flight at the interrupt that needs
\* less than the shutdown timeout is answered 200 before the process exits.
ShutdownOrder == <<"srv.Shutdown called", "srv.Shutdown returned",
                   "tp.Shutdown called", "tp.Shutdown returned">>
Short(r) == r.need >= 0 /\ r.need < ShutdownTimeout
C4_TwoPhaseShutdown ==
    /\ Len(phases) <= Len(ShutdownOrder)
    /\ phases = SubSeq(ShutdownOrder, 1, Len(phases))
    /\ phases # <<>> => listener # "bound"
    /\ pc \in {"tpShutdown", "tpReturned", "exited"} =>
         \A i \in 1..Len(reqs) :
            Short(reqs[i]) => reqs[i].stage = "done" /\ reqs[i].status = 200

C4_Witness ==
    /\ pc = "exited" /\ Called("tp.Shutdown returned")
    /\ \E i \in 1..Len(reqs) :
         reqs[i].need = 2 /\ reqs[i].stage = "done" /\ reqs[i].status = 200

\* C5: with the endpoint or the API key empty no exporter is ever created; the
\* chi variant exits before the listener is started, the std variant goes on
\* without a provider and serves; no run starts the listener and then exits
\* for the missing value.
ConfigMissing == endpoint = "" \/ apiKey = ""
C6_TracingNeverAffectsResponse ==
    /\ (stage \in {"written", "returned", "done"} /\ handler # "none") =>
         LET d == Dispatch(variant, rq.method, rq.path) IN
           /\ resp.status = 200
           /\ resp = HandlerResponse(variant, d.handler, rq, d.id)
    /\ stage \in {"returned", "done"} => resp.status \in {200, 404, 405}
    /\ stage = "received" => ENABLED otelhttpStart
    /\ stage = "routing" => ENABLED routerDispatch
    /\ stage = "handler" => ENABLED handlerStart
    /\ stage = "written" => ENABLED handlerDefer
    /\ stage = "returned" => ENABLED otelhttpEnd

C6_Witness ==
    /\ stage = "done" /\ handler = "getHealtz" /\ resp.status = 200
    /\ tp = "active" /\ ~collectorUp /\ dropped

\* C7: when the request carries a valid trace-context header its server span
\* belongs to the trace of that header; without a usable header the request
\* starts a new trace.
C7_ServerSpanContinuesTrace ==
    (stage \notin {"idle", "received"} /\ serverSpan.recording) =>
        /\ rq.traceparent = "valid" => serverSpan.traceId = "remote" /\ serverSpan.parent = "remote"
        /\ rq.traceparent # "valid" => serverSpan.traceId = "new" /\ serverSpan.parent = "none"

\* C8: a request whose method and path match none of GET /healthz, GET /,
\* GET /hello, GET /users/{id} invokes no handler and is answered not-found.
Registered(method, path) ==
    /\ method = "GET"
    /\ \/ path \in {<<"healthz">>, <<>>, <<"hello">>}
       \/ Len(path) = 2 /\ path[1] = "users"
C8_UnmatchedIsNotFound ==
    (stage \notin {"idle", "received", "routing"} /\ ~Registered(rq.method, rq.path)) =>
        /\ handler = "none"
        /\ resp.status \in {404, 405}

\* Reading a JSON string back (the inverse a client applies to the body).
JSONCodePoint(code) ==
    CASE code = <<"0", "0", "3", "c">> -> "<"
      [] code = <<"0", "0", "3", "e">> -> ">"
      [] code = <<"0", "0", "2", "6">> -> "&"
      [] OTHER -> "?"
RECURSIVE JSONUnescape(_)
JSONUnescape(s) ==
    IF s = <<>> THEN <<>>
    ELSE IF Head(s) = "\\"
      THEN IF s[2] = "u"
             THEN <<JSONCodePoint(SubSeq(s, 3, 6))>> \o JSONUnescape(SubSeq(s, 7, Len(s)))
             ELSE <<s[2]>> \o JSONUnescape(SubSeq(s, 3, Len(s)))
      ELSE <<Head(s)>> \o JSONUnescape(Tail(s))

\* The message a client reads from a body {"message":"..."}.
MessageOf(body) ==
    IF Len(body) >= 3 /\ body[1] = "{\"message\":\"" /\ body[Len(body) - 1] = "\"}"
      THEN JSONUnescape(SubSeq(body, 2, Len(body) - 2))
      ELSE <<"not a message">>

HelloAnswered == stage \in {"written", "returned", "done"} /\ handler = "getHello"
Greeting(name) == <<"Hello, ">> \o (IF name = <<>> THEN <<"World">> ELSE name) \o <<"!">>

\* C9 as stated: the greeting names the text that follows name= in the URL.
C9_AsStated ==
    (HelloAnswered /\ rq.mode = "raw") =>
        LET s == IF rq.hasName THEN Sent(rq) ELSE <<>> IN
          /\ resp.status = 200
          /\ MessageOf(resp.body) = Greeting(s)

\* C9 amended: the greeting names the value s whose URL encoding follows
\* name= (World when s is empty or the parameter is absent), and the
\* hello.name attribute is the name in the greeting.
C9_GreetsDecodedName ==
    (HelloAnswered /\ (rq.hasName => Sent(rq) = QueryEscape(rq.s))) =>
        LET s == IF rq.hasName THEN rq.s ELSE <<>> IN
          /\ resp.status = 200
          /\ MessageOf(resp.body) = Greeting(s)
          /\ <<"Hello, ">> \o childSpan.helloName \o <<"!">> = MessageOf(resp.body)

C9_Witness ==
    /\ stage = "done" /\ handler = "getHello" /\ rq.mode = "escaped"
    /\ rq.s = <<"<", "+", "%">>
    /\ MessageOf(resp.body) = <<"Hello, ", "<", "+", "%", "!">>

\* C10: a process that created a provider calls tp.Shutdown before it exits,
\* on every path, the listener goroutine's log.Fatalf included.
C10_FlushBeforeExit ==
    (pc = "exited" /\ tp # "none") => Called("tp.Shutdown called")

====
